---- MODULE Spec2Model ----
\* A model of the konbini commit-message generator: the dual-language entry
\* flow (main.ts with llms/commit-message.ts) and the standalone flow
\* (konbini.ts).  One run of one flow is one behaviour.  Strings are sequences
\* of one-character strings; the literal tag "<commit message>" and its
\* closing tag are the single tokens "<cm>" and "</cm>".
EXTENDS Integers, Sequences, FiniteSets, TLC

\* ------------------------------------------------------------------ bounds
\* Longest list git status reports for the staged files.
MaxFiles == 2

\* ----------------------------------------------------------- string helpers
IsSpace(c) == c \in {" ", "\n"}

RECURSIVE TrimStart(_)
TrimStart(s) ==
  IF s = <<>> THEN s
  ELSE IF IsSpace(Head(s)) THEN TrimStart(Tail(s)) ELSE s

RECURSIVE TrimEnd(_)
TrimEnd(s) ==
  IF s = <<>> THEN s
  ELSE IF IsSpace(s[Len(s)]) THEN TrimEnd(SubSeq(s, 1, Len(s) - 1)) ELSE s

\* String.prototype.trim
Trim(s) == TrimEnd(TrimStart(s))

RECURSIVE SplitAcc(_, _, _)
SplitAcc(s, cur, acc) ==
  IF s = <<>> THEN Append(acc, cur)
  ELSE IF Head(s) = "\n" THEN SplitAcc(Tail(s), <<>>, Append(acc, cur))
  ELSE SplitAcc(Tail(s), Append(cur, Head(s)), acc)

\* String.prototype.split('\n'): never empty, "" splits to [""]
SplitLines(s) == SplitAcc(s, <<>>, <<>>)

RECURSIVE JoinWith(_, _)
\* Array.prototype.join(sep)
JoinWith(parts, sep) ==
  IF parts = <<>> THEN <<>>
  ELSE IF Len(parts) = 1 THEN parts[1]
  ELSE parts[1] \o sep \o JoinWith(Tail(parts), sep)

RECURSIVE SelectLines(_)
\* lines.filter((line) => line.trim() !== '')
SelectLines(lines) ==
  IF lines = <<>> THEN <<>>
  ELSE IF Trim(Head(lines)) # <<>> THEN <<Head(lines)>> \o SelectLines(Tail(lines))
  ELSE SelectLines(Tail(lines))

RECURSIVE IndexFrom(_, _, _)
\* least index i >= from with s[i] = tok, 0 when there is none
IndexFrom(s, tok, from) ==
  IF from > Len(s) THEN 0
  ELSE IF s[from] = tok THEN from ELSE IndexFrom(s, tok, from + 1)

\* ------------------------------------------------------- response parsers
\* llms/commit-message.ts parseResponse: first line of the trimmed text is
\* the subject, the rest joined and trimmed is the body; no tag search.
\* parseResponse giving up on a blank completion
parseResponseNullOnBlank(response) ==
  LET lines == SplitLines(Trim(response))
  IN  IF Trim(response) = <<>> THEN [has |-> FALSE]
      ELSE [subject |-> lines[1], body |-> Trim(JoinWith(Tail(lines), <<"\n">>))]

\* parseResponse taking the last line for the subject
parseResponseSubjectLast(response) ==
  LET lines == SplitLines(Trim(response))
  IN  [subject |-> lines[Len(lines)], body |-> Trim(JoinWith(Tail(lines), <<"\n">>))]

parseResponse(response) ==
  LET lines == SplitLines(Trim(response))
  IN  [subject |-> lines[1], body |-> Trim(JoinWith(Tail(lines), <<"\n">>))]

\* konbini.ts extractCommitMessage: /<commit message>([\s\S]*?)<\/commit message>/i
\* matches from the first opening tag to the first closing tag after it; the
\* fallback is the last line that is not blank, or ''.
extractCommitMessage(output) ==
  LET open  == IndexFrom(output, "<cm>", 1)
      close == IF open = 0 THEN 0 ELSE IndexFrom(output, "</cm>", open + 1)
      lines == SelectLines(SplitLines(output))
  IN  IF close # 0 THEN Trim(SubSeq(output, open + 1, close - 1))
      ELSE IF lines = <<>> THEN <<>> ELSE lines[Len(lines)]

\* --------------------------------------------------------- exclusion filter
\* A pattern after pattern.replace(/\*/g, '.*') inside new RegExp(`^...$`):
\* "*" matches any string, "." any one character, anything else itself.
RECURSIVE RegExpTest(_, _)
RegExpTest(pat, s) ==
  IF pat = <<>> THEN s = <<>>
  ELSE IF Head(pat) = "*"
       THEN \E k \in 0..Len(s) : RegExpTest(Tail(pat), SubSeq(s, k + 1, Len(s)))
  ELSE IF s = <<>> THEN FALSE
  ELSE IF Head(pat) = "." \/ Head(pat) = Head(s) THEN RegExpTest(Tail(pat), Tail(s))
  ELSE FALSE

EXCLUDED_FILE_PATTERNS ==
  << <<"y","a","r","n",".","l","o","c","k">>,
     <<"p","a","c","k","a","g","e","-","l","o","c","k",".","j","s","o","n">>,
     <<"*",".","l","o","g">>,
     <<"*",".","m","i","n",".","j","s">>,
     <<"*",".","m","i","n",".","c","s","s">>,
     <<"d","i","s","t","/","*">>,
     <<"b","u","i","l","d","/","*">> >>

IsExcluded(file) ==
  \E i \in 1..Len(EXCLUDED_FILE_PATTERNS) : RegExpTest(EXCLUDED_FILE_PATTERNS[i], file)

RECURSIVE filterFilesSplicing(_)
\* filterFiles removing entries from the list it is walking: the entry after
\* a removed one is skipped
filterFilesSplicing(files) ==
  IF files = <<>> THEN <<>>
  ELSE IF IsExcluded(Head(files))
       THEN IF Tail(files) = <<>> THEN <<>>
            ELSE <<Head(Tail(files))>> \o filterFilesSplicing(Tail(Tail(files)))
  ELSE <<Head(files)>> \o filterFilesSplicing(Tail(files))

RECURSIVE filterFiles(_)
filterFiles(files) ==
  IF files = <<>> THEN <<>>
  ELSE IF IsExcluded(Head(files)) THEN filterFiles(Tail(files))
  ELSE <<Head(files)>> \o filterFiles(Tail(files))


\* ------------------------------------------------------------ value spaces
None == [has |-> FALSE]
Some(v) == [has |-> TRUE, val |-> v]

Variants == {"en", "cn"}

\* paths git can report: a source file, a lockfile, a build artefact
Paths ==
  { <<"a",".","t","s">>,
    <<"y","a","r","n",".","l","o","c","k">>,
    <<"d","i","s","t","/","b">> }

RECURSIVE ListsUpTo(_)
\* lists over Paths of length at most n
ListsUpTo(n) ==
  IF n = 0 THEN { <<>> }
  ELSE LET shorter == ListsUpTo(n - 1)
       IN  shorter \cup { Append(l, p) : l \in shorter, p \in Paths }

NoDup(l) == \A i, j \in 1..Len(l) : i # j => l[i] # l[j]

StagedLists == { l \in ListsUpTo(MaxFiles) : NoDup(l) }
ModifiedLists == { <<>>, << <<"m",".","t","s">> >> }
NotAddedLists == { <<>>, << <<"n",".","t","s">> >> }

\* completions the generation API can return as text
Completions ==
  { <<"A","d","d","\n","\n","b">>,
    <<"x","\n","<cm>","F","i","x","\n","g","</cm>","\n","z">> }

\* what git diff --staged --stat can count for a non-empty index
DiffStats == { [insertions |-> 1, deletions |-> 0], [insertions |-> 2, deletions |-> 1] }

\* lines the user can type at a readline question
Keystrokes == { <<"y">>, <<"Y">>, <<"n">>, <<>> }
Descriptions == { <<>>, <<" ","w">> }

UpperCase ==
  <<"A", "B", "C", "D", "E", "F", "G", "H", "I", "J", "K", "L", "M", "N", "O", "P", "Q", "R", "S", "T", "U", "V", "W", "X", "Y", "Z">>
LowerCase ==
  <<"a", "b", "c", "d", "e", "f", "g", "h", "i", "j", "k", "l", "m", "n", "o", "p", "q", "r", "s", "t", "u", "v", "w", "x", "y", "z">>

toLowerCase(s) ==
  [i \in 1..Len(s) |->
     IF \E j \in 1..Len(UpperCase) : UpperCase[j] = s[i]
     THEN LowerCase[CHOOSE j \in 1..Len(UpperCase) : UpperCase[j] = s[i]]
     ELSE s[i]]

NoRequest == [st |-> "none"]
Pending == [st |-> "pending"]
Rejected == [st |-> "rejected"]
Resolved(type, text) == [st |-> "resolved", type |-> type, text |-> text]

\* responses messages.create can settle with; without a credential the SDK
\* cannot authenticate and the call rejects
Settlements(hasKey) ==
  IF hasKey
  THEN {Rejected, Resolved("tool_use", <<>>)} \cup { Resolved("text", t) : t \in Completions }
  ELSE {Rejected}

\* -------------------------------------------------------------------- state
\* ------------------------------------------------------------ quality score
\* s.includes(sub)
includes(s, sub) ==
  \E i \in 0..(Len(s) - Len(sub)) : SubSeq(s, i + 1, i + Len(sub)) = sub

keywords ==
  { <<"f", "i", "x">>,
    <<"f", "e", "a", "t", "u", "r", "e">>,
    <<"r", "e", "f", "a", "c", "t", "o", "r">>,
    <<"u", "p", "d", "a", "t", "e">>,
    <<"i", "m", "p", "r", "o", "v", "e">>,
    <<"a", "d", "d">>,
    <<"r", "e", "m", "o", "v", "e">>,
    <<"c", "h", "a", "n", "g", "e">> }

\* scores are counted in tenths: 5 is 0.5, 10 is 1
MAX_SUBJECT_LENGTH == 50
SUBJECT_WEIGHT == 5
BODY_WEIGHT == 3
KEYWORD_WEIGHT == 2
MAX_SCORE == 10

\* evaluateCommitMessage with a subject limit that 50 characters already exceed
evaluateCommitMessageStrict(message) ==
  LET s1 == IF message.subject # <<>> /\ Len(message.subject) < MAX_SUBJECT_LENGTH
            THEN SUBJECT_WEIGHT ELSE 0
      s2 == IF message.body # <<>> /\ Len(message.body) > 0 THEN s1 + BODY_WEIGHT ELSE s1
      s3 == IF \E keyword \in keywords : includes(toLowerCase(message.subject), keyword)
            THEN s2 + KEYWORD_WEIGHT ELSE s2
  IN  IF s3 < MAX_SCORE THEN s3 ELSE MAX_SCORE

\* evaluateCommitMessage taking points off for a long subject
evaluateCommitMessagePenalising(message) ==
  LET s1 == IF message.subject # <<>> /\ Len(message.subject) <= MAX_SUBJECT_LENGTH
            THEN SUBJECT_WEIGHT ELSE 0 - SUBJECT_WEIGHT
      s2 == IF message.body # <<>> /\ Len(message.body) > 0 THEN s1 + BODY_WEIGHT ELSE s1
      s3 == IF \E keyword \in keywords : includes(toLowerCase(message.subject), keyword)
            THEN s2 + KEYWORD_WEIGHT ELSE s2
  IN  IF s3 < MAX_SCORE THEN s3 ELSE MAX_SCORE

\* evaluateCommitMessage: score starts at 0, each check that passes adds its
\* weight, Math.min caps the sum
evaluateCommitMessage(message) ==
  LET s1 == IF message.subject # <<>> /\ Len(message.subject) <= MAX_SUBJECT_LENGTH
            THEN SUBJECT_WEIGHT ELSE 0
      s2 == IF message.body # <<>> /\ Len(message.body) > 0 THEN s1 + BODY_WEIGHT ELSE s1
      s3 == IF \E keyword \in keywords : includes(toLowerCase(message.subject), keyword)
            THEN s2 + KEYWORD_WEIGHT ELSE s2
  IN  IF s3 < MAX_SCORE THEN s3 ELSE MAX_SCORE

\* ------------------------------------------------------- prompt templates
\* A prompt is a sequence of items: a stretch of fixed wording, a step number,
\* the name of an XML tag, or an interpolated value. Tag names of the Chinese
\* template are written in pinyin: daima-diff is <代码diff>, tijiao-xinxi is
\* <提交信息>.
Txt(words) == [k |-> "text", v |-> <<words>>]
Tag(name) == [k |-> "tag", v |-> <<name>>]
Val(s) == [k |-> "val", v |-> s]

DigitChars == <<"0", "1", "2", "3", "4", "5", "6", "7", "8", "9">>

RECURSIVE NumberToString(_)
\* `${n}` of a non-negative integer
NumberToString(n) ==
  IF n < 10 THEN << DigitChars[n + 1] >>
  ELSE NumberToString(n \div 10) \o << DigitChars[(n % 10) + 1] >>

Step(n) == [k |-> "step", v |-> NumberToString(n)]

\* `${x}` of a string that may be undefined
Interpolate(x) == IF x.has THEN x.val ELSE <<"u","n","d","e","f","i","n","e","d">>

\* x ? ... : ... of a string that may be undefined
Truthy(x) == x.has /\ x.val # <<>>

\* a step counter living on between calls
StepCounterCarried(left) == IF left = 0 THEN 1 ELSE left

\* let stepCounter = 1: each call starts its own counter, whatever value the
\* counter of an earlier call was left with
StepCounterAtCall(left) == 1

\* KONBINI_PROMPTS.generateCommitMessageEn; every ${stepCounter++} renders the
\* counter and then increments it
generateCommitMessageEn(diff, engineerMessage, left) ==
  LET c0 == StepCounterAtCall(left)
      c1 == IF Truthy(engineerMessage) THEN c0 + 1 ELSE c0
      engineerStep ==
        IF Truthy(engineerMessage)
        THEN << Step(c0), Txt("Look at the message written by the engineer"),
                Tag("engineer-message"), Val(engineerMessage.val), Tag("/engineer-message"),
                Txt("provide your observations"),
                Tag("observations-about-engineer-message") >>
        ELSE <<>>
      examineStep ==
        << Step(c1), Txt("Carefully examine the code changes") >>
        \o (IF Truthy(engineerMessage)
            THEN << Txt("consider the engineer's original message") >> ELSE <<>>)
        \o << Tag("observations-about-code-changes") >>
      listStep ==
        << Step(c1 + 1), Txt("List up all of the pieces of information"),
           Tag("list-of-information-items"),
           Tag("reasoning-for-omitting-info-items"),
           Tag("list-of-info-item-ids-in-commit-message") >>
      generateStep ==
        << Step(c1 + 2), Txt("Generate a commit message"),
           Tag("list-of-info-item-ids-in-commit-message") >>
        \o (IF Truthy(engineerMessage)
            THEN << Txt("context from step one"),
                    Tag("observations-about-engineer-message") >> ELSE <<>>)
        \o << Txt("changes from step two"), Tag("observations-about-code-changes"),
              Txt("returned in an XML block tag called"), Tag("commit-message"),
              Tag("commit-message"), Txt("COMMIT_DESCRIPTION"), Txt("EXTENDED_DESCRIPTION"),
              Txt("KEY_POINTS"), Tag("list-of-information-items"), Tag("/commit-message"),
              Txt("section prefixes") >>
  IN  [text |-> << Txt("Your goal"), Tag("code-diff"), Val(diff), Tag("/code-diff"),
                   Txt("John Carmack") >>
                \o engineerStep \o examineStep \o listStep \o generateStep,
       stepCounter |-> c1 + 3]

\* KONBINI_PROMPTS.generateCommitMessageCn: the four steps and their numbers
\* are fixed wording, the engineer's message is always interpolated
generateCommitMessageCn(diff, engineerMessage) ==
  << Txt("cn: your goal"), Tag("daima-diff"), Val(diff), Tag("/daima-diff"),
     Txt("cn: John Carmack"),
     Step(1), Txt("cn: look at the original author's message"),
     Tag("gongchengshi-xinxi"), Val(Interpolate(engineerMessage)), Tag("/gongchengshi-xinxi"),
     Txt("cn: provide your observations"),
     Tag("guanyu-gongchengshi-xinxi-de-guancha"),
     Step(2), Txt("cn: carefully examine the code changes"),
     Txt("cn: consider the engineer's original message"),
     Tag("guanyu-daima-biangeng-de-guancha"),
     Step(3), Txt("cn: list all information items"),
     Tag("xinxixiang-liebiao"),
     Tag("shenglue-xinxixiang-de-liyou"),
     Tag("commit-xiaoxi-zhong-baohan-de-xinxixiang-ID-liebiao"),
     Step(4), Txt("cn: generate the commit message"),
     Tag("commit-xiaoxi-zhong-baohan-de-xinxixiang-ID-liebiao"),
     Txt("cn: a. context from step one"), Tag("guanyu-gongchengshi-xinxi-de-guancha"),
     Txt("cn: b. changes from step two"), Tag("guanyu-daima-biangeng-de-guancha"),
     Txt("cn: returned in the XML tag"), Tag("tijiao-xinxi"),
     Tag("tijiao-xinxi"), Txt("cn: commit description"), Txt("cn: extended description"),
     Txt("cn: key points"), Tag("xinxixiang-liebiao"), Tag("/tijiao-xinxi"),
     Txt("cn: section prefixes") >>

\* constructPrompt: the template is called with the diff text alone, then the
\* file list and the change counts are appended
constructPrompt(params, language, left) ==
  IF language = "en"
  THEN LET en == generateCommitMessageEn(params.diff.content, None, left)
       IN  [text |-> en.text
                     \o << Txt("Changed files:"),
                           Val(JoinWith(params.diff.files, <<"\n">>)),
                           Txt("Summary of changes:"),
                           Val(NumberToString(params.diff.additions)), Txt("additions,"),
                           Val(NumberToString(params.diff.deletions)), Txt("deletions") >>,
            stepCounter |-> en.stepCounter]
  ELSE [text |-> generateCommitMessageCn(params.diff.content, None)
                 \o << Txt("cn: changed files:"),
                       Val(JoinWith(params.diff.files, <<"\n">>)),
                       Txt("cn: summary of changes:"),
                       Txt("cn: added"), Val(NumberToString(params.diff.additions)), Txt("cn: lines,"),
                       Txt("cn: deleted"), Val(NumberToString(params.diff.deletions)), Txt("cn: lines") >>,
        stepCounter |-> left]

VARIABLES
  flow,        \* "main" (main.ts) or "konbini" (konbini.ts)
  pc,          \* position of the run
  env,         \* process environment: ANTHROPIC_API_KEY and GITHUB_TOKEN set?
  repo,        \* the repository: index, modified files, untracked files, commits
  status,      \* result of getGitStatus
  answers,     \* answer given at each confirmation gate
  lastConfirm, \* the gate asked last
  diff,        \* result of getGitDiff
  userCommitDescription,
  req,         \* the generation request of each variant
  generated,   \* parsed messages the orchestrator holds, by variant
  parsed,      \* variants whose completion went through the parser
  calls,       \* number of calls of each external operation
  addArg,      \* files handed to git add
  commitArg,   \* message handed to git commit
  outcome,     \* "running", "Committed", "Cancelled", "NoChanges", "failed"
  error,       \* class of the error that ended the run
  exitCode,    \* process exit status, -1 while running
  credentials, \* konbini.ts: result of getGitHubCredentials
  octokit,     \* konbini.ts: is there an Octokit instance?
  issueId,     \* konbini.ts: issue id from the branch name or the user
  issueData,   \* konbini.ts: result of getIssueData
  generatedMessage, \* konbini.ts: result of generateCommitMessage
  finalMessage, \* konbini.ts: message to commit
  prompts,     \* prompt sent with the request of each variant
  stepCounter, \* the step counter of the English template, as its last call left it
  pureArg,     \* arguments of the function under study
  pureRes      \* what the calls made so far returned

vars == << flow, pc, env, repo, status, answers, lastConfirm, diff,
           userCommitDescription, req, generated, parsed, calls, addArg,
           commitArg, outcome, error, exitCode, credentials, octokit,
           issueId, issueData, generatedMessage, finalMessage, prompts,
           stepCounter, pureArg, pureRes >>

promptVars == << prompts, stepCounter >>
pureVars == << pureArg, pureRes >>

konbiniVars == << credentials, octokit, issueId, issueData, generatedMessage, finalMessage >>

Gates == {"stage", "use", "commit"}
Ops == {"status", "add", "diff", "tracker", "commit"}

Init ==
  /\ flow \in {"main", "konbini"}
  /\ pc = IF flow = "main" THEN "m_status" ELSE "k_creds"
  /\ env \in [apiKey : BOOLEAN, githubToken : BOOLEAN]
  /\ repo \in [staged : StagedLists, modified : ModifiedLists,
               not_added : NotAddedLists, commits : {0}]
  /\ status = None
  /\ answers = [g \in Gates |-> "unasked"]
  /\ lastConfirm = "none"
  /\ diff = None
  /\ userCommitDescription = None
  /\ req = [v \in Variants |-> NoRequest]
  /\ generated = [v \in {} |-> None]
  /\ parsed = {}
  /\ calls = [o \in Ops |-> 0] @@ [v \in Variants |-> 0]
  /\ addArg = None
  /\ commitArg = None
  /\ outcome = "running"
  /\ error = "none"
  /\ exitCode = -1
  /\ credentials = None
  /\ octokit = FALSE
  /\ issueId = None
  /\ issueData = None
  /\ generatedMessage = None
  /\ finalMessage = None
  /\ prompts = [v \in Variants |-> None]
  /\ stepCounter = 0
  /\ pureArg = None
  /\ pureRes = <<>>

\* ------------------------------------------------------------ git commands
\* git add files: the files enter the index and leave the other two lists
RECURSIVE Without(_, _)
Without(l, files) ==
  IF l = <<>> THEN <<>>
  ELSE IF \E i \in 1..Len(files) : files[i] = Head(l) THEN Without(Tail(l), files)
  ELSE <<Head(l)>> \o Without(Tail(l), files)

GitAdd(r, files) ==
  [r EXCEPT !.staged = r.staged \o Without(files, r.staged),
            !.modified = Without(r.modified, files),
            !.not_added = Without(r.not_added, files)]

\* git commit: a commit is created from a non-empty index, which it empties
GitCommit(r) ==
  IF r.staged = <<>> THEN r
  ELSE [r EXCEPT !.staged = <<>>, !.commits = r.commits + 1]

Called(op) == calls' = [calls EXCEPT ![op] = calls[op] + 1]

\* ---------------------------------------------------------- main.ts flow
\* a catch block that logs the error and lets main return
MainFailLoggedOnly(kind) ==
  /\ pc' = "done"
  /\ outcome' = "failed"
  /\ error' = kind
  /\ exitCode' = 0

\* catch (error) { logger.error(...); process.exit(1) }
MainFail(kind) ==
  /\ pc' = "done"
  /\ outcome' = "failed"
  /\ error' = kind
  /\ exitCode' = 1

\* getGitStatus asking for staging whenever the working tree has changes
GitStatusOfIgnoringIndex(r) ==
  [staged |-> r.staged, unstaged |-> r.modified, untracked |-> r.not_added,
   needsStaging |-> Len(r.modified) > 0 \/ Len(r.not_added) > 0]

\* status.ts getGitStatus
GitStatusOf(r) ==
  [staged |-> r.staged, unstaged |-> r.modified, untracked |-> r.not_added,
   needsStaging |-> Len(r.staged) = 0 /\ (Len(r.modified) > 0 \/ Len(r.not_added) > 0)]

MainGetGitStatus ==
  /\ pc = "m_status"
  /\ Called("status")
  /\ \/ /\ status' = Some(GitStatusOf(repo))
        /\ pc' = IF GitStatusOf(repo).needsStaging THEN "m_stage_prompt" ELSE "m_diff"
        /\ UNCHANGED << outcome, error, exitCode >>
     \/ /\ MainFail("GitError")
        /\ UNCHANGED status
  /\ UNCHANGED << flow, env, repo, answers, lastConfirm, diff, userCommitDescription,
                  req, generated, parsed, addArg, commitArg >>
  /\ UNCHANGED konbiniVars
  /\ UNCHANGED promptVars
  /\ UNCHANGED pureVars


\* confirm('Stage all changes?'): yes stages the modified files, no goes on
\* to the diff all the same; the inquirer prompt can reject
MainConfirmStage ==
  /\ pc = "m_stage_prompt"
  /\ lastConfirm' = "stage"
  /\ \/ /\ answers' = [answers EXCEPT !["stage"] = "yes"]
        /\ pc' = "m_stage"
        /\ UNCHANGED << outcome, error, exitCode >>
     \/ /\ answers' = [answers EXCEPT !["stage"] = "no"]
        /\ pc' = "m_diff"
        /\ UNCHANGED << outcome, error, exitCode >>
     \/ /\ MainFail("Error")
        /\ UNCHANGED answers
  /\ UNCHANGED << flow, env, repo, status, diff, userCommitDescription, req,
                  generated, parsed, calls, addArg, commitArg >>
  /\ UNCHANGED konbiniVars
  /\ UNCHANGED promptVars
  /\ UNCHANGED pureVars

\* stageChanges(status.unstaged)
MainStageChanges ==
  /\ pc = "m_stage"
  /\ Called("add")
  /\ addArg' = Some(status.val.unstaged)
  /\ \/ /\ repo' = GitAdd(repo, status.val.unstaged)
        /\ pc' = "m_diff"
        /\ UNCHANGED << outcome, error, exitCode >>
     \/ /\ MainFail("GitError")
        /\ UNCHANGED repo
  /\ UNCHANGED << flow, env, status, answers, lastConfirm, diff, userCommitDescription,
                  req, generated, parsed, commitArg >>
  /\ UNCHANGED konbiniVars
  /\ UNCHANGED promptVars
  /\ UNCHANGED pureVars

\* diff.ts getGitDiff: summary and text of the staged changes, file list filtered
GitDiffOf(r, stat) ==
  [files |-> filterFiles(r.staged),
   additions |-> IF r.staged = <<>> THEN 0 ELSE stat.insertions,
   deletions |-> IF r.staged = <<>> THEN 0 ELSE stat.deletions,
   content |-> IF r.staged = <<>> THEN <<>> ELSE <<"d">>]

MainGetGitDiff ==
  /\ pc = "m_diff"
  /\ Called("diff")
  /\ \/ /\ \E stat \in DiffStats : diff' = Some(GitDiffOf(repo, stat))
        /\ pc' = "m_describe"
        /\ UNCHANGED << outcome, error, exitCode >>
     \/ /\ MainFail("GitError")
        /\ UNCHANGED diff
  /\ UNCHANGED << flow, env, repo, status, answers, lastConfirm, userCommitDescription,
                  req, generated, parsed, addArg, commitArg >>
  /\ UNCHANGED konbiniVars
  /\ UNCHANGED promptVars
  /\ UNCHANGED pureVars

\* prompts.ts promptUser: the trimmed answer, or UserInputError
promptUser(answer) == Trim(answer)

\* (await promptUser(...)) || null
MainPromptDescription ==
  /\ pc = "m_describe"
  /\ \/ /\ \E d \in Descriptions :
             userCommitDescription' =
               IF promptUser(d) = <<>> THEN None ELSE Some(promptUser(d))
        /\ pc' = "m_generate"
        /\ UNCHANGED << outcome, error, exitCode >>
     \/ /\ MainFail("UserInputError")
        /\ UNCHANGED userCommitDescription
  /\ UNCHANGED << flow, env, repo, status, answers, lastConfirm, diff, req,
                  generated, parsed, calls, addArg, commitArg >>
  /\ UNCHANGED konbiniVars
  /\ UNCHANGED promptVars
  /\ UNCHANGED pureVars

\* MainGenerateStart not waiting for getGitDiff: the requests go out on an
\* empty change set while the diff is still to be collected
MainGenerateStartEarly ==
  /\ pc = "m_diff"
  /\ req' = [v \in Variants |-> Pending]
  /\ calls' = [calls EXCEPT !["en"] = calls["en"] + 1, !["cn"] = calls["cn"] + 1]
  /\ LET params == [diff |-> [files |-> <<>>, additions |-> 0, deletions |-> 0,
                              content |-> <<>>],
                    userCommitDescription |-> userCommitDescription]
         en == constructPrompt(params, "en", stepCounter)
         cn == constructPrompt(params, "cn", en.stepCounter)
     IN  /\ prompts' = [v \in Variants |-> Some(IF v = "en" THEN en.text ELSE cn.text)]
         /\ stepCounter' = cn.stepCounter
  /\ pc' = "m_wait"
  /\ UNCHANGED << flow, env, repo, status, answers, lastConfirm, diff,
                  userCommitDescription, generated, parsed, addArg, commitArg,
                  outcome, error, exitCode >>
  /\ UNCHANGED konbiniVars
  /\ UNCHANGED pureVars

\* generateCommitMessage up to the await: both prompts are built and both
\* messages.create calls are issued before Promise.all suspends
MainGenerateStart ==
  /\ pc = "m_generate"
  /\ req' = [v \in Variants |-> Pending]
  /\ calls' = [calls EXCEPT !["en"] = calls["en"] + 1, !["cn"] = calls["cn"] + 1]
  /\ LET params == [diff |-> diff.val, userCommitDescription |-> userCommitDescription]
         en == constructPrompt(params, "en", stepCounter)
         cn == constructPrompt(params, "cn", en.stepCounter)
     IN  /\ prompts' = [v \in Variants |-> Some(IF v = "en" THEN en.text ELSE cn.text)]
         /\ stepCounter' = cn.stepCounter
  /\ pc' = "m_wait"
  /\ UNCHANGED << flow, env, repo, status, answers, lastConfirm, diff,
                  userCommitDescription, generated, parsed, addArg, commitArg,
                  outcome, error, exitCode >>
  /\ UNCHANGED konbiniVars
  /\ UNCHANGED pureVars

\* the generation API settles one outstanding request, in any order
Respond(v) ==
  /\ pc \in {"m_wait", "k_wait"}
  /\ req[v] = Pending
  /\ \E r \in Settlements(env.apiKey) : req' = [req EXCEPT ![v] = r]
  /\ UNCHANGED << flow, pc, env, repo, status, answers, lastConfirm, diff,
                  userCommitDescription, generated, parsed, calls, addArg,
                  commitArg, outcome, error, exitCode >>
  /\ UNCHANGED konbiniVars
  /\ UNCHANGED promptVars
  /\ UNCHANGED pureVars


\* MainJoinReject with the rejection swallowed: the run goes on to the prompt
MainJoinRejectSwallowed ==
  /\ pc = "m_wait"
  /\ \E v \in Variants : req[v] = Rejected
  /\ generated' = [v \in Variants |->
                     IF req[v].st = "resolved" /\ req[v].type = "text"
                     THEN parseResponse(req[v].text)
                     ELSE [subject |-> <<>>, body |-> <<>>]]
  /\ pc' = "m_use_prompt"
  /\ UNCHANGED << outcome, error, exitCode >>
  /\ UNCHANGED << flow, env, repo, status, answers, lastConfirm, diff,
                  userCommitDescription, req, parsed, calls, addArg,
                  commitArg >>
  /\ UNCHANGED konbiniVars
  /\ UNCHANGED promptVars
  /\ UNCHANGED pureVars

\* MainJoinReject as a settle-all join: what did resolve is parsed and kept
MainJoinRejectKeepingSettled ==
  /\ pc = "m_wait"
  /\ \E v \in Variants : req[v] = Rejected
  /\ generated' = [v \in { w \in Variants : req[w].st = "resolved" /\ req[w].type = "text" } |->
                     parseResponse(req[v].text)]
  /\ parsed' = { w \in Variants : req[w].st = "resolved" /\ req[w].type = "text" }
  /\ MainFail("AnthropicError")
  /\ UNCHANGED << flow, env, repo, status, answers, lastConfirm, diff,
                  userCommitDescription, req, calls, addArg,
                  commitArg >>
  /\ UNCHANGED konbiniVars
  /\ UNCHANGED promptVars
  /\ UNCHANGED pureVars

\* Promise.all rejects as soon as one request rejects; the catch block turns
\* it into AnthropicError, which main's catch turns into exit(1)
MainJoinReject ==
  /\ pc = "m_wait"
  /\ \E v \in Variants : req[v] = Rejected
  /\ MainFail("AnthropicError")
  /\ UNCHANGED << flow, env, repo, status, answers, lastConfirm, diff,
                  userCommitDescription, req, generated, parsed, calls, addArg,
                  commitArg >>
  /\ UNCHANGED konbiniVars
  /\ UNCHANGED promptVars
  /\ UNCHANGED pureVars


\* UnexpectedType looking at the first response only
UnexpectedTypeEnOnly(responseEn, responseCn) ==
  responseEn.type # "text"

\* responseEn.content[0].type !== 'text' || responseCn.content[0].type !== 'text'
UnexpectedType(responseEn, responseCn) ==
  responseEn.type # "text" \/ responseCn.type # "text"

\* MainJoinResolve pairing each variant with the other variant's response
MainJoinResolveSwapped ==
  /\ pc = "m_wait"
  /\ \A v \in Variants : req[v].st = "resolved"
  /\ IF UnexpectedType(req["en"], req["cn"])
     THEN /\ MainFail("AnthropicError")
          /\ UNCHANGED << generated, parsed >>
     ELSE /\ generated' = [v \in Variants |->
                             parseResponse(req[IF v = "en" THEN "cn" ELSE "en"].text)]
          /\ parsed' = Variants
          /\ pc' = "m_use_prompt"
          /\ UNCHANGED << outcome, error, exitCode >>
  /\ UNCHANGED << flow, env, repo, status, answers, lastConfirm, diff,
                  userCommitDescription, req, calls, addArg, commitArg >>
  /\ UNCHANGED konbiniVars
  /\ UNCHANGED promptVars
  /\ UNCHANGED pureVars

\* Promise.all resolved: type check, then both completions are parsed
MainJoinResolve ==
  /\ pc = "m_wait"
  /\ \A v \in Variants : req[v].st = "resolved"
  /\ IF UnexpectedType(req["en"], req["cn"])
     THEN /\ MainFail("AnthropicError")
          /\ UNCHANGED << generated, parsed >>
     ELSE /\ generated' = [v \in Variants |-> parseResponse(req[v].text)]
          /\ parsed' = Variants
          /\ pc' = "m_use_prompt"
          /\ UNCHANGED << outcome, error, exitCode >>
  /\ UNCHANGED << flow, env, repo, status, answers, lastConfirm, diff,
                  userCommitDescription, req, calls, addArg, commitArg >>
  /\ UNCHANGED konbiniVars
  /\ UNCHANGED promptVars
  /\ UNCHANGED pureVars

\* confirm('Use this commit message?')
MainConfirmUse ==
  /\ pc = "m_use_prompt"
  /\ lastConfirm' = "use"
  /\ \/ /\ answers' = [answers EXCEPT !["use"] = "yes"]
        /\ pc' = "m_commit"
        /\ UNCHANGED << outcome, error, exitCode >>
     \/ /\ answers' = [answers EXCEPT !["use"] = "no"]
        /\ pc' = "done"
        /\ outcome' = "Cancelled"
        /\ exitCode' = 0
        /\ UNCHANGED error
     \/ /\ MainFail("Error")
        /\ UNCHANGED answers
  /\ UNCHANGED << flow, env, repo, status, diff, userCommitDescription, req,
                  generated, parsed, calls, addArg, commitArg >>
  /\ UNCHANGED konbiniVars
  /\ UNCHANGED promptVars
  /\ UNCHANGED pureVars

\* [en.subject, en.body, cn.subject, cn.body].join('\n\n')
MainCommitText(m) ==
  JoinWith(<< m["en"].subject, m["en"].body, m["cn"].subject, m["cn"].body >>,
           <<"\n", "\n">>)

\* MainCreateCommit trying again after a failed git commit
MainCreateCommitRetrying ==
  /\ pc = "m_commit"
  /\ Called("commit")
  /\ commitArg' = Some(MainCommitText(generated))
  /\ \/ /\ repo' = GitCommit(repo)
        /\ pc' = "done"
        /\ outcome' = "Committed"
        /\ exitCode' = 0
        /\ UNCHANGED error
     \/ /\ pc' = "m_commit"
        /\ UNCHANGED << repo, outcome, error, exitCode >>
  /\ UNCHANGED << flow, env, status, answers, lastConfirm, diff,
                  userCommitDescription, req, generated, parsed, addArg >>
  /\ UNCHANGED konbiniVars
  /\ UNCHANGED promptVars
  /\ UNCHANGED pureVars

\* createCommit(...)
MainCreateCommit ==
  /\ pc = "m_commit"
  /\ Called("commit")
  /\ commitArg' = Some(MainCommitText(generated))
  /\ \/ /\ repo' = GitCommit(repo)
        /\ pc' = "done"
        /\ outcome' = "Committed"
        /\ exitCode' = 0
        /\ UNCHANGED error
     \/ /\ MainFail("GitError")
        /\ UNCHANGED repo
  /\ UNCHANGED << flow, env, status, answers, lastConfirm, diff,
                  userCommitDescription, req, generated, parsed, addArg >>
  /\ UNCHANGED konbiniVars
  /\ UNCHANGED promptVars
  /\ UNCHANGED pureVars

\* ------------------------------------------------------- konbini.ts flow
\* the catch block of main logs the error; process.exit(1) follows it
KFail(kind) ==
  /\ pc' = "done"
  /\ outcome' = "failed"
  /\ error' = kind
  /\ exitCode' = 1

\* the message of KReturn logged without the return: the run goes on to the
\* branch lookup
KReturnFallingThrough(how) ==
  /\ pc' = "k_branch"
  /\ outcome' = how
  /\ exitCode' = 0

\* return inside the try block: main resolves and the process ends by itself
KReturn(how) ==
  /\ pc' = "done"
  /\ outcome' = how
  /\ exitCode' = 0

\* the try block ran to its end: process.exit(1) on line 573
KEnd(how) ==
  /\ pc' = "done"
  /\ outcome' = how
  /\ exitCode' = 1

\* confirm: answer.toLowerCase() === 'y' on the trimmed answer
confirm(answer) == toLowerCase(Trim(answer)) = <<"y">>

\* branch.match(/(\d+)/): the first run of digits
Digits == {"0", "1", "2", "3", "4", "5", "6", "7", "8", "9"}

RECURSIVE DigitRun(_)
DigitRun(s) ==
  IF s = <<>> \/ Head(s) \notin Digits THEN <<>>
  ELSE <<Head(s)>> \o DigitRun(Tail(s))

RECURSIVE getIssueIdFromBranch(_)
getIssueIdFromBranch(branch) ==
  IF branch = <<>> THEN None
  ELSE IF Head(branch) \in Digits THEN Some(DigitRun(branch))
  ELSE getIssueIdFromBranch(Tail(branch))

Branches == { <<"m","a","i","n">>, <<"f","-","4","2","-","x">> }
IssueAnswers == { <<>>, <<"7">> }
CustomMessages == { <<>>, <<"m","s","g">> }

\* getGitHubCredentials, awaited outside every try block: the detected
\* credential, else GITHUB_TOKEN, else an Error that nothing catches
KGetGitHubCredentials ==
  /\ pc = "k_creds"
  /\ \E detected \in {"ssh", "token", "none"} :
       IF detected # "none"
       THEN /\ credentials' = Some(detected)
            /\ pc' = "k_config"
            /\ UNCHANGED << outcome, error, exitCode >>
       ELSE IF env.githubToken
       THEN /\ credentials' = Some("token")
            /\ pc' = "k_config"
            /\ UNCHANGED << outcome, error, exitCode >>
       ELSE /\ KFail("Error")
            /\ UNCHANGED credentials
  /\ UNCHANGED << flow, env, repo, status, answers, lastConfirm, diff, 
                  userCommitDescription, req, generated, parsed, calls, addArg, 
                  commitArg, octokit, issueId, issueData, generatedMessage, 
                  finalMessage >>
  /\ UNCHANGED promptVars
  /\ UNCHANGED pureVars

\* the ANTHROPIC_API_KEY check, then createOctokitInstance, which throws
\* for an SSH credential; that throw is caught and logged as a warning
KConfigure ==
  /\ pc = "k_config"
  /\ IF ~env.apiKey
     THEN /\ KFail("MissingConfiguration")
          /\ UNCHANGED octokit
     ELSE /\ octokit' = (credentials.val = "token")
          /\ pc' = "k_isrepo"
          /\ UNCHANGED << outcome, error, exitCode >>
  /\ UNCHANGED << flow, env, repo, status, answers, lastConfirm, diff, 
                  userCommitDescription, req, generated, parsed, calls, addArg, 
                  commitArg, credentials, issueId, issueData, generatedMessage, 
                  finalMessage >>
  /\ UNCHANGED promptVars
  /\ UNCHANGED pureVars

\* isGitRepository; false throws GitError
KIsGitRepository ==
  /\ pc = "k_isrepo"
  /\ \/ /\ pc' = "k_status"
        /\ UNCHANGED << outcome, error, exitCode >>
     \/ KFail("GitError")
  /\ UNCHANGED << flow, env, repo, status, answers, lastConfirm, diff, 
                  userCommitDescription, req, generated, parsed, calls, addArg, 
                  commitArg, credentials, octokit, issueId, issueData, 
                  generatedMessage, finalMessage >>
  /\ UNCHANGED promptVars
  /\ UNCHANGED pureVars

\* getGitStatus and the two early exits that follow it
KGetGitStatus ==
  /\ pc = "k_status"
  /\ Called("status")
  /\ \/ /\ status' = Some([staged |-> repo.staged, unstaged |-> repo.modified,
                            untracked |-> repo.not_added])
        /\ IF Len(repo.staged) = 0 /\ Len(repo.modified) = 0 /\ Len(repo.not_added) = 0
           THEN KReturn("NoChanges")
           ELSE /\ pc' = IF Len(repo.staged) = 0 THEN "k_stage_prompt" ELSE "k_branch"
                /\ UNCHANGED << outcome, exitCode >>
        /\ UNCHANGED error
     \/ /\ KFail("GitError")
        /\ UNCHANGED status
  /\ UNCHANGED << flow, env, repo, answers, lastConfirm, diff, userCommitDescription, 
                  req, generated, parsed, addArg, commitArg, credentials, octokit, 
                  issueId, issueData, generatedMessage, finalMessage >>
  /\ UNCHANGED promptVars
  /\ UNCHANGED pureVars

\* confirm('No staged changes. Would you like to stage all changes?')
KConfirmStage ==
  /\ pc = "k_stage_prompt"
  /\ lastConfirm' = "stage"
  /\ \E a \in Keystrokes :
       IF confirm(a)
       THEN /\ answers' = [answers EXCEPT !["stage"] = "yes"]
            /\ pc' = "k_stage"
            /\ UNCHANGED << outcome, exitCode >>
       ELSE /\ answers' = [answers EXCEPT !["stage"] = "no"]
            /\ KReturn("Cancelled")
  /\ UNCHANGED << flow, env, repo, status, diff, userCommitDescription, req, generated, 
                  parsed, calls, addArg, commitArg, error, credentials, octokit, 
                  issueId, issueData, generatedMessage, finalMessage >>
  /\ UNCHANGED promptVars
  /\ UNCHANGED pureVars

\* stageChanges([...unstaged, ...untracked])
KStageChanges ==
  /\ pc = "k_stage"
  /\ Called("add")
  /\ addArg' = Some(status.val.unstaged \o status.val.untracked)
  /\ \/ /\ repo' = GitAdd(repo, status.val.unstaged \o status.val.untracked)
        /\ pc' = "k_branch"
        /\ UNCHANGED << outcome, error, exitCode >>
     \/ /\ KFail("GitError")
        /\ UNCHANGED repo
  /\ UNCHANGED << flow, env, status, answers, lastConfirm, diff, userCommitDescription, 
                  req, generated, parsed, commitArg, credentials, octokit, issueId, 
                  issueData, generatedMessage, finalMessage >>
  /\ UNCHANGED promptVars
  /\ UNCHANGED pureVars

\* getCurrentBranch, then getIssueIdFromBranch
KGetCurrentBranch ==
  /\ pc = "k_branch"
  /\ \/ /\ \E b \in Branches :
             /\ issueId' = getIssueIdFromBranch(b)
             /\ pc' = IF getIssueIdFromBranch(b).has THEN "k_issue" ELSE "k_issue_prompt"
        /\ UNCHANGED << outcome, error, exitCode >>
     \/ /\ KFail("GitError")
        /\ UNCHANGED issueId
  /\ UNCHANGED << flow, env, repo, status, answers, lastConfirm, diff, 
                  userCommitDescription, req, generated, parsed, calls, addArg, 
                  commitArg, credentials, octokit, issueData, generatedMessage, 
                  finalMessage >>
  /\ UNCHANGED promptVars
  /\ UNCHANGED pureVars

\* promptUser for the issue id; an empty answer is null
KPromptIssueId ==
  /\ pc = "k_issue_prompt"
  /\ \E a \in IssueAnswers :
       issueId' = IF Trim(a) = <<>> THEN None ELSE Some(Trim(a))
  /\ pc' = "k_issue"
  /\ UNCHANGED << flow, env, repo, status, answers, lastConfirm, diff, 
                  userCommitDescription, req, generated, parsed, calls, addArg, 
                  commitArg, outcome, error, exitCode, credentials, octokit, issueData, 
                  generatedMessage, finalMessage >>
  /\ UNCHANGED promptVars
  /\ UNCHANGED pureVars


\* if (issueId && octokit) getIssueData: issues.get, then listComments;
\* either failure is rethrown as GitHubError and reaches the catch of main
KGetIssueData ==
  /\ pc = "k_issue"
  /\ IF issueId.has /\ octokit
     THEN \/ /\ calls' = [calls EXCEPT !["tracker"] = calls["tracker"] + 2]
             /\ issueData' = Some(issueId.val)
             /\ pc' = "k_diff"
             /\ UNCHANGED << outcome, error, exitCode >>
          \/ /\ \E n \in {1, 2} : calls' = [calls EXCEPT !["tracker"] = calls["tracker"] + n]
             /\ KFail("GitHubError")
             /\ UNCHANGED issueData
     ELSE /\ pc' = "k_diff"
          /\ UNCHANGED << calls, issueData, outcome, error, exitCode >>
  /\ UNCHANGED << flow, env, repo, status, answers, lastConfirm, diff, 
                  userCommitDescription, req, generated, parsed, addArg, commitArg, 
                  credentials, octokit, issueId, generatedMessage, finalMessage >>
  /\ UNCHANGED promptVars
  /\ UNCHANGED pureVars

\* getGitDiff: status, exclusion filter, '' when nothing is left, else git diff
KGetGitDiff ==
  /\ pc = "k_diff"
  /\ Called("diff")
  /\ \/ /\ diff' = Some(IF filterFiles(repo.staged) = <<>> THEN <<>> ELSE <<"d">>)
        /\ pc' = "k_generate"
        /\ UNCHANGED << outcome, error, exitCode >>
     \/ /\ KFail("GitError")
        /\ UNCHANGED diff
  /\ UNCHANGED << flow, env, repo, status, answers, lastConfirm, userCommitDescription, 
                  req, generated, parsed, addArg, commitArg, credentials, octokit, 
                  issueId, issueData, generatedMessage, finalMessage >>
  /\ UNCHANGED promptVars
  /\ UNCHANGED pureVars

\* generateCommitMessage up to the await: one messages.create call
KGenerateStart ==
  /\ pc = "k_generate"
  /\ req' = [req EXCEPT !["en"] = Pending]
  /\ calls' = [calls EXCEPT !["en"] = calls["en"] + 1]
  /\ LET en == generateCommitMessageEn(diff.val, issueData, stepCounter)
     IN  /\ prompts' = [prompts EXCEPT !["en"] = Some(en.text)]
         /\ stepCounter' = en.stepCounter
  /\ pc' = "k_wait"
  /\ UNCHANGED << flow, env, repo, status, answers, lastConfirm, diff, 
                  userCommitDescription, generated, parsed, addArg, commitArg, outcome, 
                  error, exitCode, credentials, octokit, issueId, issueData, 
                  generatedMessage, finalMessage >>
  /\ UNCHANGED pureVars


\* KGenerateReject with a retry: the request is issued again
KGenerateRejectRetrying ==
  /\ pc = "k_wait"
  /\ req["en"] = Rejected
  /\ pc' = "k_generate"
  /\ UNCHANGED << outcome, error, exitCode, flow, env, repo, status, answers, lastConfirm, diff, 
                  userCommitDescription, req, generated, parsed, calls, addArg, 
                  commitArg, credentials, octokit, issueId, issueData, 
                  generatedMessage, finalMessage >>
  /\ UNCHANGED promptVars
  /\ UNCHANGED pureVars

\* the call rejected: AnthropicError
KGenerateReject ==
  /\ pc = "k_wait"
  /\ req["en"] = Rejected
  /\ KFail("AnthropicError")
  /\ UNCHANGED << flow, env, repo, status, answers, lastConfirm, diff, 
                  userCommitDescription, req, generated, parsed, calls, addArg, 
                  commitArg, credentials, octokit, issueId, issueData, 
                  generatedMessage, finalMessage >>
  /\ UNCHANGED promptVars
  /\ UNCHANGED pureVars

\* the call resolved: response.content[0].type !== 'text' throws, else
\* the commit message is extracted
KGenerateResolve ==
  /\ pc = "k_wait"
  /\ req["en"].st = "resolved"
  /\ IF req["en"].type # "text"
     THEN /\ KFail("AnthropicError")
          /\ UNCHANGED << generatedMessage, parsed >>
     ELSE /\ generatedMessage' = Some(extractCommitMessage(req["en"].text))
          /\ parsed' = parsed \cup {"en"}
          /\ pc' = "k_use_prompt"
          /\ UNCHANGED << outcome, error, exitCode >>
  /\ UNCHANGED << flow, env, repo, status, answers, lastConfirm, diff, 
                  userCommitDescription, req, generated, calls, addArg, commitArg, 
                  credentials, octokit, issueId, issueData, finalMessage >>
  /\ UNCHANGED promptVars
  /\ UNCHANGED pureVars

\* confirm('Do you want to use this generated commit message?'): no asks
\* for a message instead
KConfirmUse ==
  /\ pc = "k_use_prompt"
  /\ lastConfirm' = "use"
  /\ \E a \in Keystrokes :
       IF confirm(a)
       THEN /\ answers' = [answers EXCEPT !["use"] = "yes"]
            /\ finalMessage' = generatedMessage
            /\ pc' = "k_commit_prompt"
       ELSE /\ answers' = [answers EXCEPT !["use"] = "no"]
            /\ pc' = "k_custom"
            /\ UNCHANGED finalMessage
  /\ UNCHANGED << flow, env, repo, status, diff, userCommitDescription, req, generated, 
                  parsed, calls, addArg, commitArg, outcome, error, exitCode, 
                  credentials, octokit, issueId, issueData, generatedMessage >>
  /\ UNCHANGED promptVars
  /\ UNCHANGED pureVars

\* promptUser('Enter your commit message: ')
KPromptMessage ==
  /\ pc = "k_custom"
  /\ \E a \in CustomMessages : finalMessage' = Some(Trim(a))
  /\ pc' = "k_commit_prompt"
  /\ UNCHANGED << flow, env, repo, status, answers, lastConfirm, diff, 
                  userCommitDescription, req, generated, parsed, calls, addArg, 
                  commitArg, outcome, error, exitCode, credentials, octokit, issueId, 
                  issueData, generatedMessage >>
  /\ UNCHANGED promptVars
  /\ UNCHANGED pureVars


\* KConfirmCommit with the answer ignored: a decline commits as well
KConfirmCommitIgnoringAnswer ==
  /\ pc = "k_commit_prompt"
  /\ lastConfirm' = "commit"
  /\ \E a \in Keystrokes :
       IF confirm(a)
       THEN /\ answers' = [answers EXCEPT !["commit"] = "yes"]
            /\ pc' = "k_commit"
            /\ UNCHANGED << outcome, exitCode >>
       ELSE /\ answers' = [answers EXCEPT !["commit"] = "no"]
            /\ pc' = "k_commit"
            /\ UNCHANGED << outcome, exitCode >>
  /\ UNCHANGED << flow, env, repo, status, diff, userCommitDescription, req, generated, 
                  parsed, calls, addArg, commitArg, error, credentials, octokit, 
                  issueId, issueData, generatedMessage, finalMessage >>
  /\ UNCHANGED promptVars
  /\ UNCHANGED pureVars

\* confirm('Do you want to commit these changes?')
KConfirmCommit ==
  /\ pc = "k_commit_prompt"
  /\ lastConfirm' = "commit"
  /\ \E a \in Keystrokes :
       IF confirm(a)
       THEN /\ answers' = [answers EXCEPT !["commit"] = "yes"]
            /\ pc' = "k_commit"
            /\ UNCHANGED << outcome, exitCode >>
       ELSE /\ answers' = [answers EXCEPT !["commit"] = "no"]
            /\ KEnd("Cancelled")
  /\ UNCHANGED << flow, env, repo, status, diff, userCommitDescription, req, generated, 
                  parsed, calls, addArg, commitArg, error, credentials, octokit, 
                  issueId, issueData, generatedMessage, finalMessage >>
  /\ UNCHANGED promptVars
  /\ UNCHANGED pureVars

\* commitChanges(finalMessage)
KCommitChanges ==
  /\ pc = "k_commit"
  /\ Called("commit")
  /\ commitArg' = finalMessage
  /\ \/ /\ repo' = GitCommit(repo)
        /\ KEnd("Committed")
        /\ UNCHANGED error
     \/ /\ KFail("GitError")
        /\ UNCHANGED repo
  /\ UNCHANGED << flow, env, status, answers, lastConfirm, diff, userCommitDescription, 
                  req, generated, parsed, addArg, credentials, octokit, issueId, 
                  issueData, generatedMessage, finalMessage >>
  /\ UNCHANGED promptVars
  /\ UNCHANGED pureVars

KonbiniNext ==
  \/ KGetGitHubCredentials
  \/ KConfigure
  \/ KIsGitRepository
  \/ KGetGitStatus
  \/ KConfirmStage
  \/ KStageChanges
  \/ KGetCurrentBranch
  \/ KPromptIssueId
  \/ KGetIssueData
  \/ KGetGitDiff
  \/ KGenerateStart
  \/ KGenerateReject
  \/ KGenerateResolve
  \/ KConfirmUse
  \/ KPromptMessage
  \/ KConfirmCommit
  \/ KCommitChanges

MainNext ==
  \/ MainGetGitStatus
  \/ MainConfirmStage
  \/ MainStageChanges
  \/ MainGetGitDiff
  \/ MainPromptDescription
  \/ MainGenerateStart
  \/ MainJoinReject
  \/ MainJoinResolve
  \/ MainConfirmUse
  \/ MainCreateCommit

Next ==
  \/ MainNext
  \/ KonbiniNext
  \/ \E v \in Variants : Respond(v)

Spec == Init /\ [][Next]_vars


\* every external call returns, every prompt is answered, every continuation runs
FairSpec == Spec /\ WF_vars(Next)

\* ------------------------------------------------------------- properties
IsText(r) == r.st = "resolved" /\ r.type = "text"
NotText(r) == r.st = "resolved" /\ r.type # "text"

\* a generation request of the run failed: rejected, or answered with no text
GenerationFailed == \E v \in Variants : req[v] = Rejected \/ NotText(req[v])

\* C1: the commit operation is called, or about to be called, only when the
\* confirmation asked last in the run was answered yes.
C1_CommitOnlyAfterYes ==
  (calls["commit"] > 0 \/ pc \in {"m_commit", "k_commit"}) =>
    /\ lastConfirm = (IF flow = "main" THEN "use" ELSE "commit")
    /\ answers[lastConfirm] = "yes"

C1_Witness ==
  /\ calls["commit"] = 1
  /\ outcome = "Committed"
  /\ flow = "konbini"
  /\ answers["use"] = "no"

\* C2: a decline at any confirmation gate ends the run there, in Cancelled,
\* with no commit call and a zero exit status.
C2_DeclineEndsInCancelled ==
  \A g \in Gates :
    answers[g] = "no" =>
      /\ pc = "done"
      /\ outcome = "Cancelled"
      /\ exitCode = 0
      /\ calls["commit"] = 0

\* C3: after the staging prompt was declined no generation request is issued
\* and no commit call is made.
C3_StageDeclineStopsRun ==
  answers["stage"] = "no" =>
    /\ calls["en"] = 0
    /\ calls["cn"] = 0
    /\ calls["commit"] = 0

\* C4: once a generation request has failed the commit operation is never
\* called and the run never ends Committed or Cancelled: it is either still
\* suspended in the join on the other request or it has ended in failure
\* with exit status 1.
C4_GenerationFailureIsFatal ==
  GenerationFailed =>
    /\ calls["commit"] = 0
    /\ pc \in {"m_wait", "k_wait", "done"}
    /\ pc = "done" => (outcome = "failed" /\ error = "AnthropicError" /\ exitCode = 1)
    /\ pc # "done" => outcome = "running"

C4_Witness ==
  /\ flow = "main"
  /\ pc = "done"
  /\ req["en"] = Rejected
  /\ IsText(req["cn"])
  /\ outcome = "failed"

\* C5: in the dual-language flow the orchestrator holds the messages of both
\* variants or of none; nothing is parsed or held unless both requests
\* resolved with text.
C5_AllOrNothingJoin ==
  flow = "main" =>
    /\ DOMAIN generated \in {{}, Variants}
    /\ parsed \in {{}, Variants}
    /\ (parsed # {} \/ DOMAIN generated # {}) => \A v \in Variants : IsText(req[v])
    /\ commitArg.has => \A v \in Variants : IsText(req[v])

C5_Witness ==
  /\ flow = "main"
  /\ pc = "done"
  /\ IsText(req["en"])
  /\ req["cn"] = Rejected
  /\ DOMAIN generated = {}

\* a fetch of the issue record was attempted and did not deliver
IssueFetchFailed == calls["tracker"] > 0 /\ ~issueData.has

\* C6: after a failed issue fetch the run is not ended by it: no GitHubError
\* reaches the top-level handler, and the run goes on to the diff.
C6_IssueFailureNonFatal ==
  IssueFetchFailed =>
    /\ error # "GitHubError"
    /\ pc = "done" => calls["diff"] > 0

\* C7: with the generation credential present, a standalone run that could
\* obtain no issue-tracker credential does not end before the status check.
C7_NoTrackerCredentialDegrades ==
  (flow = "konbini" /\ env.apiKey /\ ~env.githubToken /\ ~credentials.has /\ pc = "done")
    => calls["status"] > 0

\* C8: in a run without the generation credential nothing is staged, no
\* tracker or generation request is issued and nothing is committed.
C8_MissingKeyFailsBeforeSideEffects ==
  ~env.apiKey =>
    /\ calls["add"] = 0
    /\ calls["tracker"] = 0
    /\ calls["en"] = 0
    /\ calls["cn"] = 0
    /\ calls["commit"] = 0

\* C9: when a response arrived whose content is not text, no message is
\* parsed or held, and once generateCommitMessage has returned control the
\* run has failed with AnthropicError.
C9_OnlyTextAccepted ==
  (\E v \in Variants : NotText(req[v])) =>
    /\ DOMAIN generated = {}
    /\ ~generatedMessage.has
    /\ parsed = {}
    /\ pc \notin {"m_wait", "k_wait"} =>
         (pc = "done" /\ outcome = "failed" /\ error = "AnthropicError")

C9_Witness ==
  /\ IsText(req["en"])
  /\ NotText(req["cn"])
  /\ pc = "done"
  /\ error = "AnthropicError"

\* C10: at most one generation request per variant in a run, and none for
\* the second variant in the standalone flow.
C10_NoRetry ==
  /\ calls["en"] <= 1
  /\ calls["cn"] <= 1
  /\ flow = "konbini" => calls["cn"] = 0

C10_Witness ==
  /\ flow = "konbini"
  /\ calls["en"] = 1
  /\ req["en"] = Rejected
  /\ pc = "done"


\* ------------------------------------------------- the parsers, by themselves
\* bound: completions of up to MaxText tokens
MaxText == 4

\* a completion is a sequence of characters and tags: "<c-m>" and "</c-m>" are
\* <commit-message> and </commit-message>, the tags the English template asks
\* for; "<cm>" and "</cm>" are <commit message> and </commit message>, the tags
\* extractCommitMessage searches
TextTokens == {"a", " ", "\n", "<c-m>", "</c-m>", "<cm>", "</cm>"}

RECURSIVE TextsUpTo(_)
TextsUpTo(n) ==
  IF n = 0 THEN { <<>> }
  ELSE LET shorter == TextsUpTo(n - 1)
       IN  shorter \cup { Append(t, c) : t \in shorter, c \in TextTokens }

\* no run of the tool is in progress
RunIdle ==
  /\ flow = "none"
  /\ pc = "off"
  /\ env = [apiKey |-> FALSE, githubToken |-> FALSE]
  /\ repo = [staged |-> <<>>, modified |-> <<>>, not_added |-> <<>>, commits |-> 0]
  /\ status = None
  /\ answers = [g \in Gates |-> "unasked"]
  /\ lastConfirm = "none"
  /\ diff = None
  /\ userCommitDescription = None
  /\ req = [v \in Variants |-> NoRequest]
  /\ generated = [v \in {} |-> None]
  /\ parsed = {}
  /\ calls = [o \in Ops |-> 0] @@ [v \in Variants |-> 0]
  /\ addArg = None
  /\ commitArg = None
  /\ outcome = "running"
  /\ error = "none"
  /\ exitCode = -1
  /\ credentials = None
  /\ octokit = FALSE
  /\ issueId = None
  /\ issueData = None
  /\ generatedMessage = None
  /\ finalMessage = None
  /\ prompts = [v \in Variants |-> None]

runVars == << flow, pc, env, repo, status, answers, lastConfirm, diff,
              userCommitDescription, req, generated, parsed, calls, addArg,
              commitArg, outcome, error, exitCode, credentials, octokit,
              issueId, issueData, generatedMessage, finalMessage, prompts >>

ParseInit ==
  /\ RunIdle
  /\ stepCounter = 0
  /\ pureArg \in TextsUpTo(MaxText)
  /\ pureRes = <<>>

\* parseResponse(content.text) in generateCommitMessage
CallParseResponse ==
  /\ pureRes = <<>>
  /\ pureRes' = << [fn |-> "parseResponse", out |-> parseResponse(pureArg)] >>
  /\ UNCHANGED << runVars, stepCounter, pureArg >>

\* extractCommitMessage(content.text) in konbini.ts's generateCommitMessage
CallExtractCommitMessage ==
  /\ pureRes = <<>>
  /\ pureRes' = << [fn |-> "extractCommitMessage", out |-> extractCommitMessage(pureArg)] >>
  /\ UNCHANGED << runVars, stepCounter, pureArg >>

ParseNext ==
  \/ CallParseResponse
  \/ CallExtractCommitMessage

ParseSpec == ParseInit /\ [][ParseNext]_vars

\* the first <commit-message> ... </commit-message> block of a text
BlockOpen(t) == IndexFrom(t, "<c-m>", 1)
BlockClose(t) == IF BlockOpen(t) = 0 THEN 0 ELSE IndexFrom(t, "</c-m>", BlockOpen(t) + 1)
HasBlock(t) == BlockClose(t) # 0
BlockLines(t) == SplitLines(Trim(SubSeq(t, BlockOpen(t) + 1, BlockClose(t) - 1)))

Returned(fn) == { pureRes[k].out : k \in { i \in 1..Len(pureRes) : pureRes[i].fn = fn } }

\* C11: whenever the completion holds a well-formed <commit-message> block,
\* the parser of the dual-language path returns the block's first line as the
\* subject and the block's remaining lines, trimmed, as the body, and the
\* parser of the standalone path returns the block's content, whatever stands
\* outside the tags
C11_TagFirst ==
  HasBlock(pureArg) =>
    /\ \A m \in Returned("parseResponse") :
         /\ m.subject = BlockLines(pureArg)[1]
         /\ m.body = Trim(JoinWith(Tail(BlockLines(pureArg)), <<"\n">>))
    /\ \A o \in Returned("extractCommitMessage") :
         o = Trim(JoinWith(BlockLines(pureArg), <<"\n">>))


TagTokens == {"<c-m>", "</c-m>", "<cm>", "</cm>"}
NoTags(t) == \A i \in 1..Len(t) : t[i] \notin TagTokens
NonBlankLines(t) == SelectLines(SplitLines(t))

C13_ParserTotal ==
  /\ \A m \in Returned("parseResponse") :
       /\ DOMAIN m = {"subject", "body"}
       /\ m.subject \in Seq(TextTokens)
       /\ m.body \in Seq(TextTokens)
       /\ Trim(pureArg) = <<>> => (m.subject = <<>> /\ m.body = <<>>)
  /\ \A o \in Returned("extractCommitMessage") :
       /\ o \in Seq(TextTokens)
       /\ Trim(pureArg) = <<>> => o = <<>>

\* a completion of white space only went through parseResponse
C13_Witness ==
  /\ pureArg # <<>>
  /\ Trim(pureArg) = <<>>
  /\ Returned("parseResponse") # {}


\* ------------------------------------------- the prompt builders, by themselves
\* bound: calls made in a row
MaxCalls == 2

PromptDiffs ==
  { GitDiffOf([staged |-> l, modified |-> <<>>, not_added |-> <<>>, commits |-> 0], stat) :
      l \in StagedLists, stat \in DiffStats }

\* the engineer's message: undefined, empty, or a text
EngineerMessages == { None, Some(<<>>), Some(<<"w">>) }

PromptInit ==
  /\ RunIdle
  /\ stepCounter = 0
  /\ pureArg \in [diff : PromptDiffs, engineerMessage : EngineerMessages]
  /\ pureRes = <<>>

\* a call of the English template
CallGenerateCommitMessageEn ==
  /\ Len(pureRes) < MaxCalls
  /\ LET en == generateCommitMessageEn(pureArg.diff.content, pureArg.engineerMessage, stepCounter)
     IN  /\ pureRes' = Append(pureRes, [fn |-> "template", variant |-> "en",
                                        context |-> pureArg.engineerMessage, out |-> en.text])
         /\ stepCounter' = en.stepCounter
  /\ UNCHANGED << runVars, pureArg >>

\* a call of the Chinese template
CallGenerateCommitMessageCn ==
  /\ Len(pureRes) < MaxCalls
  /\ pureRes' = Append(pureRes,
                  [fn |-> "template", variant |-> "cn", context |-> pureArg.engineerMessage,
                   out |-> generateCommitMessageCn(pureArg.diff.content, pureArg.engineerMessage)])
  /\ UNCHANGED << runVars, stepCounter, pureArg >>

\* a call of constructPrompt with the engineer's message as the user's description
CallConstructPrompt(language) ==
  /\ Len(pureRes) < MaxCalls
  /\ LET params == [diff |-> pureArg.diff,
                    userCommitDescription |-> pureArg.engineerMessage]
         built == constructPrompt(params, language, stepCounter)
     IN  /\ pureRes' = Append(pureRes, [fn |-> "constructPrompt", variant |-> language,
                                        context |-> pureArg.engineerMessage, out |-> built.text])
         /\ stepCounter' = built.stepCounter
  /\ UNCHANGED << runVars, pureArg >>

PromptNext ==
  \/ CallGenerateCommitMessageEn
  \/ CallGenerateCommitMessageCn
  \/ \E language \in Variants : CallConstructPrompt(language)

PromptSpec == PromptInit /\ [][PromptNext]_vars

IsStepItem(x) == x.k = "step"
StepNumbers(prompt) ==
  LET steps == SelectSeq(prompt, IsStepItem) IN [i \in 1..Len(steps) |-> steps[i].v]

\* the block that quotes the human context
HumanTags == { <<"engineer-message">>, <<"gongchengshi-xinxi">> }
HumanBlockAt(prompt, i) ==
  /\ i + 2 <= Len(prompt)
  /\ prompt[i].k = "tag" /\ prompt[i].v \in HumanTags
  /\ prompt[i + 1].k = "val"
HasHumanBlock(prompt) == \E i \in 1..Len(prompt) : HumanBlockAt(prompt, i)

\* the step items in front of the human-context block
StepsBeforeHumanBlock(prompt) ==
  LET i == CHOOSE j \in 1..Len(prompt) : HumanBlockAt(prompt, j)
  IN  StepNumbers(SubSeq(prompt, 1, i))

\* C14: in the prompt of either template, when there is no human context the
\* human-context step is left out and the steps are numbered 1, 2, 3; when
\* there is one, its step is numbered 1 and the others 2, 3, 4
C14_StepRenumbering ==
  \A k \in 1..Len(pureRes) :
    pureRes[k].fn = "template" =>
      IF Truthy(pureRes[k].context)
      THEN /\ HasHumanBlock(pureRes[k].out)
           /\ StepsBeforeHumanBlock(pureRes[k].out) = << <<"1">> >>
           /\ StepNumbers(pureRes[k].out) = << <<"1">>, <<"2">>, <<"3">>, <<"4">> >>
      ELSE /\ ~HasHumanBlock(pureRes[k].out)
           /\ StepNumbers(pureRes[k].out) = << <<"1">>, <<"2">>, <<"3">> >>


\* what a prompt asks for, wording and interpolated text left aside: its step
\* numbers and tag names in order, and where values are interpolated
IsStructural(x) == x.k # "text"
Structure(prompt) ==
  LET kept == SelectSeq(prompt, IsStructural)
  IN  [i \in 1..Len(kept) |-> IF kept[i].k = "val" THEN [k |-> "val", v |-> <<>>] ELSE kept[i]]

\* C15: built from the same inputs, the English and the Chinese prompt have
\* the same steps and ask for the same tag names
C15_SameStructure ==
  \A i, j \in 1..Len(pureRes) :
    (/\ pureRes[i].fn = pureRes[j].fn
     /\ pureRes[i].variant = "en"
     /\ pureRes[j].variant = "cn") =>
      Structure(pureRes[i].out) = Structure(pureRes[j].out)

\* C16: in main.ts's flow, when the user typed a description every prompt
\* sent quotes it in its human-context block, and when the user skipped it no
\* prompt sent has a human-context block
C16_HumanContextReachesPrompt ==
  (flow = "main" /\ \A v \in Variants : prompts[v].has) =>
    \A v \in Variants :
      IF userCommitDescription.has
      THEN \E i \in 1..Len(prompts[v].val) :
             /\ HumanBlockAt(prompts[v].val, i)
             /\ prompts[v].val[i + 1].v = userCommitDescription.val
      ELSE ~HasHumanBlock(prompts[v].val)

\* C17: two calls of the same builder with the same inputs return the same
\* prompt, and every English prompt starts numbering its steps at 1
C17_PromptDeterminism ==
  /\ \A i, j \in 1..Len(pureRes) :
       (pureRes[i].fn = pureRes[j].fn /\ pureRes[i].variant = pureRes[j].variant) =>
         pureRes[i].out = pureRes[j].out
  /\ \A i \in 1..Len(pureRes) :
       pureRes[i].variant = "en" => StepNumbers(pureRes[i].out)[1] = <<"1">>

\* the English template was called twice on an engineer's message
C17_Witness ==
  /\ Len(pureRes) >= 2
  /\ pureRes[1].fn = "template" /\ pureRes[1].variant = "en"
  /\ pureRes[2].fn = "template" /\ pureRes[2].variant = "en"
  /\ Truthy(pureArg.engineerMessage)


\* ------------------------------------------------ the quality score, by itself
\* bound: characters of padding after the stem of a subject
MaxPad == 51

ExampleSubject ==
  <<"A", "d", "d", " ", "r", "e", "t", "r", "y", " ", "l", "o", "g", "i", "c", " ", "t", "o", " ", "u", "p", "l", "o", "a", "d", " ", "h", "a", "n", "d", "l", "e", "r">>

SubjectStems ==
  { <<>>, <<"x">>, <<"f","i">>, <<"A","d","d">>, <<"F","I","X">>, ExampleSubject }
Subjects == { stem \o [i \in 1..n |-> "z"] : stem \in SubjectStems, n \in 0..MaxPad }
Bodies == { <<>>, <<" ">>, <<"b">> }

ScoreInit ==
  /\ RunIdle
  /\ stepCounter = 0
  /\ pureArg \in [subject : Subjects, body : Bodies]
  /\ pureRes = <<>>

CallEvaluateCommitMessage ==
  /\ pureRes = <<>>
  /\ pureRes' = << [fn |-> "evaluateCommitMessage", out |-> evaluateCommitMessage(pureArg)] >>
  /\ UNCHANGED << runVars, stepCounter, pureArg >>

ScoreNext == CallEvaluateCommitMessage

ScoreSpec == ScoreInit /\ [][ScoreNext]_vars

\* C18: the score of every message lies between 0 and 1 (0 and 10 tenths)
C18_ScoreBounds ==
  \A score \in Returned("evaluateCommitMessage") : 0 <= score /\ score <= 10

\* a message that passes no check was scored
C18_Witness ==
  /\ Len(pureArg.subject) > 50
  /\ pureArg.body = <<>>
  /\ Returned("evaluateCommitMessage") = {0}

\* C19: the score is 0.5 if and only if the subject is non-empty and at most
\* 50 characters long, plus 0.3 if and only if the body is non-empty, plus 0.2
\* if and only if the lower-cased subject contains a keyword; the subject
\* 'Add retry logic to upload handler' with a non-empty body scores 1.0
C19_ScoreIsSumOfWeights ==
  \A score \in Returned("evaluateCommitMessage") :
    /\ score = (IF pureArg.subject # <<>> /\ Len(pureArg.subject) <= 50 THEN 5 ELSE 0)
              + (IF pureArg.body # <<>> THEN 3 ELSE 0)
              + (IF \E w \in keywords : includes(toLowerCase(pureArg.subject), w)
                 THEN 2 ELSE 0)
    /\ (pureArg.subject = ExampleSubject /\ pureArg.body # <<>>) => score = 10

\* a keyword subject of exactly 50 characters with a body was scored 1.0
C19_Witness ==
  /\ Len(pureArg.subject) = 50
  /\ pureArg.body # <<>>
  /\ Returned("evaluateCommitMessage") = {10}


\* ------------------------------- two runs of main.ts after the generation step
\* A run from the return of generateCommitMessage on: the messages it holds,
\* where it stands, and the operations it has performed so far.
TailRun(messages) == [pc |-> "m_generated", generated |-> messages, ops |-> <<>>]

\* main.ts after generateCommitMessage with a gate on the quality score
MainTailStepGated(run, input) ==
  IF run.pc = "m_generated"
  THEN IF evaluateCommitMessage(run.generated["en"]) < SUBJECT_WEIGHT
       THEN [run EXCEPT !.pc = "done",
                        !.ops = @ \o <<"error: An error occurred", "exit 1">>]
       ELSE [run EXCEPT !.pc = "m_use_prompt",
                        !.ops = @ \o <<"info: Commit message generated",
                                       "confirm: Use this commit message?">>]
  ELSE IF run.pc = "m_use_prompt"
  THEN IF input.use
       THEN [run EXCEPT !.pc = "m_commit"]
       ELSE [run EXCEPT !.pc = "done", !.ops = @ \o <<"info: Commit cancelled by user">>]
  ELSE IF run.pc = "m_commit"
  THEN IF input.commitOk
       THEN [run EXCEPT !.pc = "done",
                        !.ops = @ \o <<"createCommit", "info: Changes committed">>]
       ELSE [run EXCEPT !.pc = "done",
                        !.ops = @ \o <<"createCommit", "error: An error occurred", "exit 1">>]
  ELSE run

\* main.ts after generateCommitMessage: the log line and the confirmation
\* prompt, then createCommit on a yes and the cancellation line on a no
MainTailStep(run, input) ==
  IF run.pc = "m_generated"
  THEN [run EXCEPT !.pc = "m_use_prompt",
                   !.ops = @ \o <<"info: Commit message generated",
                                  "confirm: Use this commit message?">>]
  ELSE IF run.pc = "m_use_prompt"
  THEN IF input.use
       THEN [run EXCEPT !.pc = "m_commit"]
       ELSE [run EXCEPT !.pc = "done", !.ops = @ \o <<"info: Commit cancelled by user">>]
  ELSE IF run.pc = "m_commit"
  THEN IF input.commitOk
       THEN [run EXCEPT !.pc = "done",
                        !.ops = @ \o <<"createCommit", "info: Changes committed">>]
       ELSE [run EXCEPT !.pc = "done",
                        !.ops = @ \o <<"createCommit", "error: An error occurred", "exit 1">>]
  ELSE run

\* messages generateCommitMessage can return
TailMessages == [subject : { <<>>, <<"x">>, <<"A","d","d">> }, body : { <<>>, <<"b">> }]

\* two runs, each holding its own pair of messages
PairInit ==
  /\ RunIdle
  /\ stepCounter = 0
  /\ pureArg \in [Variants -> TailMessages] \X [Variants -> TailMessages]
  /\ pureRes = << TailRun(pureArg[1]), TailRun(pureArg[2]) >>

\* both runs take their next step on the same answer and the same outcome of
\* git commit
PairStep ==
  /\ \E input \in [use : BOOLEAN, commitOk : BOOLEAN] :
       pureRes' = << MainTailStep(pureRes[1], input), MainTailStep(pureRes[2], input) >>
  /\ pureRes' # pureRes
  /\ UNCHANGED << runVars, stepCounter, pureArg >>

PairNext == PairStep

PairSpec == PairInit /\ [][PairNext]_vars

ScoresDiffer ==
  \E v \in Variants : evaluateCommitMessage(pureRes[1].generated[v])
                        # evaluateCommitMessage(pureRes[2].generated[v])

\* C20: two runs of main.ts that get the same answers and the same outcomes
\* of git commit and whose messages have different quality scores perform the
\* same operations in the same order
C20_ScoreIsAdvisory ==
  ScoresDiffer => (pureRes[1].ops = pureRes[2].ops /\ pureRes[1].pc = pureRes[2].pc)

\* two runs, one with a message scored 0 and one with a message scored 1.0,
\* have both committed
C20_Witness ==
  /\ evaluateCommitMessage(pureRes[1].generated["en"]) = 0
  /\ evaluateCommitMessage(pureRes[2].generated["en"]) = 10
  /\ pureRes[1].pc = "done"
  /\ pureRes[1].ops[Len(pureRes[1].ops)] = "info: Changes committed"


\* ------------------------------------------------ the exclusion filter, by itself
\* bound: files in a list
MaxList == 3

FilterPaths ==
  { <<"a",".","t","s">>,
    <<"b",".","t","s">>,
    <<"y","a","r","n",".","l","o","c","k">>,
    <<"d","i","s","t","/","b","u","n","d","l","e",".","j","s">>,
    <<"a","d","m","i","n",".","j","s">>,
    <<"x",".","m","i","n",".","j","s">>,
    <<"a","p","p",".","l","o","g">>,
    <<"p","k","g","/","y","a","r","n",".","l","o","c","k">> }

ExampleFiles ==
  << <<"a",".","t","s">>,
     <<"y","a","r","n",".","l","o","c","k">>,
     <<"d","i","s","t","/","b","u","n","d","l","e",".","j","s">>,
     <<"b",".","t","s">> >>

RECURSIVE FileListsUpTo(_)
FileListsUpTo(n) ==
  IF n = 0 THEN { <<>> }
  ELSE LET shorter == FileListsUpTo(n - 1)
       IN  shorter \cup { Append(l, f) : l \in shorter, f \in FilterPaths }

FilterInit ==
  /\ RunIdle
  /\ stepCounter = 0
  /\ pureArg \in { l \in FileListsUpTo(MaxList) : NoDup(l) } \cup { ExampleFiles }
  /\ pureRes = <<>>

\* filterFiles(diffSummary.files.map((f) => f.file)) in getGitDiff
CallFilterFiles ==
  /\ pureRes = <<>>
  /\ pureRes' = << [fn |-> "filterFiles", out |-> filterFiles(pureArg)] >>
  /\ UNCHANGED << runVars, stepCounter, pureArg >>

\* the filter applied to its own result
CallFilterFilesAgain ==
  /\ Len(pureRes) = 1
  /\ pureRes' = Append(pureRes, [fn |-> "filterFiles", out |-> filterFiles(pureRes[1].out)])
  /\ UNCHANGED << runVars, stepCounter, pureArg >>

FilterNext ==
  \/ CallFilterFiles
  \/ CallFilterFilesAgain

FilterSpec == FilterInit /\ [][FilterNext]_vars

\* C21: filtering a filtered list changes nothing, and the list a.ts,
\* yarn.lock, dist/bundle.js, b.ts filters to a.ts, b.ts
C21_FilterIdempotent ==
  /\ Len(pureRes) = 2 => pureRes[2].out = pureRes[1].out
  /\ (Len(pureRes) >= 1 /\ pureArg = ExampleFiles) =>
       pureRes[1].out = << ExampleFiles[1], ExampleFiles[4] >>

\* a list with two excluded files in a row was filtered twice
C21_Witness ==
  /\ Len(pureRes) = 2
  /\ pureArg = ExampleFiles


RECURSIVE GlobMatch(_, _)
\* the pattern read as a glob: "*" stands for any string, every other
\* character for itself
GlobMatch(pat, s) ==
  IF pat = <<>> THEN s = <<>>
  ELSE IF Head(pat) = "*"
       THEN \E k \in 0..Len(s) : GlobMatch(Tail(pat), SubSeq(s, k + 1, Len(s)))
  ELSE IF s = <<>> THEN FALSE
  ELSE IF Head(pat) = Head(s) THEN GlobMatch(Tail(pat), Tail(s))
  ELSE FALSE

MatchesNoPattern(file) ==
  \A i \in 1..Len(EXCLUDED_FILE_PATTERNS) : ~GlobMatch(EXCLUDED_FILE_PATTERNS[i], file)

\* C22: the file list of a change set holds no path that matches an exclusion
\* pattern and holds every path that matches none, in the original order
C22_FilesExcludeExactlyThePatterns ==
  Len(pureRes) >= 1 => pureRes[1].out = SelectSeq(pureArg, MatchesNoPattern)


\* ------------------------------------------------- properties of runs, continued
RequestOutstanding == \E v \in Variants : req[v] = Pending

\* C23: no prompt is built and no generation request issued before the diff
\* has been collected, and while a generation request is outstanding no git
\* command is started and the repository is left alone
C23_VcsSequentialToGeneration ==
  /\ []((\E v \in Variants : req[v] # NoRequest \/ prompts[v].has) => diff.has)
  /\ [][RequestOutstanding =>
          /\ \A o \in Ops : calls'[o] = calls[o]
          /\ repo' = repo]_vars

\* a run that staged files is waiting for its generation requests
C23_Witness ==
  /\ RequestOutstanding
  /\ calls["add"] = 1
  /\ calls["diff"] = 1
  /\ pc \in {"m_wait", "k_wait"}


\* C24: in main.ts's flow, whichever response arrives first, the messages
\* exist only once both responses are there, and then the message of each
\* variant is the parse of the response to that variant's request
C24_EachVariantParsedFromItsOwnResponse ==
  (flow = "main" /\ (parsed # {} \/ DOMAIN generated # {})) =>
    /\ parsed = Variants
    /\ DOMAIN generated = Variants
    /\ \A v \in Variants :
         /\ IsText(req[v])
         /\ generated[v] = parseResponse(req[v].text)

\* the two requests were answered with different completions and both were parsed
C24_Witness ==
  /\ flow = "main"
  /\ parsed = Variants
  /\ req["en"].text # req["cn"].text
  /\ generated["en"] # generated["cn"]


\* C25: a run in which an error was raised, at whichever step, has ended in
\* failure with a non-zero exit status; so has every ended run whose
\* generation failed or whose generation credential is missing
C25_FatalErrorsExitNonZero ==
  /\ error # "none" => (pc = "done" /\ outcome = "failed" /\ exitCode > 0)
  /\ (pc = "done" /\ (GenerationFailed \/ ~env.apiKey)) =>
       (outcome = "failed" /\ exitCode > 0)

\* git commit failed at the last step of a run of main.ts
C25_Witness ==
  /\ flow = "main"
  /\ error = "GitError"
  /\ calls["commit"] = 1
  /\ exitCode = 1


StagePromptReached ==
  \/ pc \in {"m_stage_prompt", "k_stage_prompt"}
  \/ answers["stage"] # "unasked"
  \/ lastConfirm = "stage"

NothingStagedButChanges(st) ==
  Len(st.staged) = 0 /\ (Len(st.unstaged) > 0 \/ Len(st.untracked) > 0)

\* C26: once the status is known, the run has come to the staging prompt
\* exactly if no file is staged and some file is modified or untracked; in
\* every other run git add is never called
C26_StagePromptOnlyWhenNeeded ==
  /\ StagePromptReached => status.has
  /\ status.has => (StagePromptReached <=> NothingStagedButChanges(status.val))
  /\ (status.has /\ ~NothingStagedButChanges(status.val)) => calls["add"] = 0
  /\ ~status.has => calls["add"] = 0

\* a run with staged and modified files committed without a staging prompt
C26_Witness ==
  /\ status.has
  /\ Len(status.val.staged) > 0
  /\ Len(status.val.unstaged) > 0
  /\ outcome = "Committed"
  /\ answers["stage"] = "unasked"


\* a run that has ended stays as it is: no call, no request, no change to the
\* repository, the same outcome
NothingAfterTheEnd ==
  /\ [](outcome # "running" => pc = "done")
  /\ [][pc = "done" =>
          /\ calls' = calls
          /\ req' = req
          /\ repo' = repo
          /\ outcome' = outcome]_vars

\* C27 as stated: every run ends, in Committed, Cancelled or failure, and
\* does nothing after that
C27_EndsCommittedCancelledOrFailed ==
  /\ <>(pc = "done")
  /\ [](pc = "done" => outcome \in {"Committed", "Cancelled", "failed"})
  /\ NothingAfterTheEnd

\* C27, amended: every run ends, in Committed, Cancelled, failure or, for
\* konbini.ts on a tree without changes, NoChanges, and does nothing after that
C27_RunsTerminate ==
  /\ <>(pc = "done")
  /\ [](pc = "done" => outcome \in {"Committed", "Cancelled", "failed", "NoChanges"})
  /\ [](outcome = "NoChanges" =>
          (flow = "konbini" /\ Len(repo.staged) + Len(repo.modified) + Len(repo.not_added) = 0))
  /\ NothingAfterTheEnd

\* konbini.ts ended on a tree without changes after its one status call
C27_Witness ==
  /\ pc = "done"
  /\ outcome = "NoChanges"
  /\ calls["status"] = 1


InList(f, l) == \E i \in 1..Len(l) : l[i] = f

\* C28: git add is handed every modified and every untracked file the status
\* check reported, and once it has succeeded none of them is left outside
\* the index
C28_StageAllStagesEverything ==
  addArg.has =>
    /\ \A i \in 1..Len(status.val.unstaged) : InList(status.val.unstaged[i], addArg.val)
    /\ \A i \in 1..Len(status.val.untracked) : InList(status.val.untracked[i], addArg.val)
    /\ (error = "none" /\ pc \notin {"m_stage", "k_stage"}) =>
         (repo.modified = <<>> /\ repo.not_added = <<>>)


\* C29: a run that ended Committed or Cancelled exits with status 0, and a
\* run that exits with another status ended in failure
C29_ExitStatusTellsFailure ==
  pc = "done" =>
    /\ outcome \in {"Committed", "Cancelled"} => exitCode = 0
    /\ exitCode # 0 => outcome = "failed"

\* C30: git commit is invoked at most once in a run, and at most one commit
\* is created
C30_AtMostOneCommit ==
  /\ calls["commit"] <= 1
  /\ repo.commits <= 1
  /\ repo.commits <= calls["commit"]

\* konbini.ts has committed
C30_Witness ==
  /\ flow = "konbini"
  /\ pc = "done"
  /\ calls["commit"] = 1
  /\ repo.commits = 1

====
